---- MODULE Spec2Model ----
(***************************************************************************)
(* base-type-guard: a library of runtime type predicates.                  *)
(*                                                                         *)
(* Two implementations live in the repository: the full library            *)
(* (src/unnamed/part_001) and the original small one (src/src/index.ts).   *)
(* The model represents a JavaScript value by the facts the predicates     *)
(* inspect (typeof tag, built-in class, string content, array elements,    *)
(* collection size, own keys, the `then` member, the constructor), and     *)
(* each exported function by an operator translated from its body.  A      *)
(* caller holds one value and calls the functions on it in any order.      *)
(***************************************************************************)
EXTENDS Integers, Sequences, FiniteSets, TLC

VARIABLES value, pc, op, out, preds, idx, calls, msg, firstTag

vars == <<value, pc, op, out, preds, idx, calls, msg, firstTag>>

(* ------------------------------ bounds -------------------------------- *)

\* longest string among the values of the general specification
MaxShort == 1
\* longest string of the text specification (isNumeric / isEmpty on strings)
MaxStrLen == 5
\* longest array
MaxArr == 2
\* largest Map/Set size and largest number of own data keys of an object
MaxSize == 1
\* longest predicate list handed to isOneOf
MaxPreds == 3

(* ------------------------------ strings ------------------------------- *)

\* A string is a sequence of characters.  An ASCII character is the
\* one-character string; any other code point, and the vertical tab, is
\* written by its name ("U+00A0").  The strings enumerated exhaustively are
\* over this alphabet: a white-space character, two digits, the decimal
\* point, the exponent marker (also the only letter) and the sign.
Alphabet == {" ", "1", "9", ".", "e", "-"}

Digit == {"0", "1", "2", "3", "4", "5", "6", "7", "8", "9"}

HexDigit == Digit \cup {"a", "b", "c", "d", "e", "f", "A", "B", "C", "D", "E", "F"}

\* value of a decimal or hexadecimal digit
DigitVal(c) ==
  CASE c = "0" -> 0 [] c = "1" -> 1 [] c = "2" -> 2 [] c = "3" -> 3
    [] c = "4" -> 4 [] c = "5" -> 5 [] c = "6" -> 6 [] c = "7" -> 7
    [] c = "8" -> 8 [] c = "9" -> 9
    [] c \in {"a", "A"} -> 10 [] c \in {"b", "B"} -> 11 [] c \in {"c", "C"} -> 12
    [] c \in {"d", "D"} -> 13 [] c \in {"e", "E"} -> 14 [] c \in {"f", "F"} -> 15

Strings(n) == UNION {[1..k -> Alphabet] : k \in 0..n}

\* WhiteSpace and LineTerminator code points (what String.prototype.trim and
\* the StrWhiteSpaceChar production of StringToNumber both strip): tab,
\* vertical tab, form feed, the byte order mark, the space separators (Zs),
\* and line feed, carriage return, line and paragraph separator
IsWhiteSpace(c) ==
  c \in {"\t", "U+000B", "\f", "U+FEFF",
         " ", "U+00A0", "U+1680", "U+2000", "U+2001", "U+2002", "U+2003", "U+2004",
         "U+2005", "U+2006", "U+2007", "U+2008", "U+2009", "U+200A", "U+202F",
         "U+205F", "U+3000",
         "\n", "\r", "U+2028", "U+2029"}

\* String.prototype.trim
Trim(s) ==
  LET keep == {i \in 1..Len(s) : ~IsWhiteSpace(s[i])}
  IN  IF keep = {} THEN <<>>
      ELSE LET lo == CHOOSE i \in keep : \A j \in keep : i <= j
               hi == CHOOSE i \in keep : \A j \in keep : j <= i
           IN  SubSeq(s, lo, hi)

AllDigits(s) == \A i \in 1..Len(s) : s[i] \in Digit

\* a digit string without its leading zeros
StripZeros(s) ==
  LET nz == {i \in 1..Len(s) : s[i] # "0"}
  IN  IF nz = {} THEN <<>>
      ELSE SubSeq(s, CHOOSE i \in nz : \A j \in nz : i <= j, Len(s))

\* decimal digits of a natural number
RECURSIVE NatText(_)
NatText(n) ==
  IF n < 10 THEN <<(<<"0", "1", "2", "3", "4", "5", "6", "7", "8", "9">>)[n + 1]>>
  ELSE NatText(n \div 10) \o NatText(n % 10)

\* the 309 decimal digits of 2^1024 - 2^970, the least magnitude that
\* rounds to Infinity
OverflowThreshold ==
  <<"1", "7", "9", "7", "6", "9", "3", "1", "3", "4", "8", "6", "2", "3", "1", "5", "8", "0", "7", "9",
    "3", "7", "2", "8", "9", "7", "1", "4", "0", "5", "3", "0", "3", "4", "1", "5", "0", "7", "9", "9",
    "3", "4", "1", "3", "2", "7", "1", "0", "0", "3", "7", "8", "2", "6", "9", "3", "6", "1", "7", "3",
    "7", "7", "8", "9", "8", "0", "4", "4", "4", "9", "6", "8", "2", "9", "2", "7", "6", "4", "7", "5",
    "0", "9", "4", "6", "6", "4", "9", "0", "1", "7", "9", "7", "7", "5", "8", "7", "2", "0", "7", "0",
    "9", "6", "3", "3", "0", "2", "8", "6", "4", "1", "6", "6", "9", "2", "8", "8", "7", "9", "1", "0",
    "9", "4", "6", "5", "5", "5", "5", "4", "7", "8", "5", "1", "9", "4", "0", "4", "0", "2", "6", "3",
    "0", "6", "5", "7", "4", "8", "8", "6", "7", "1", "5", "0", "5", "8", "2", "0", "6", "8", "1", "9",
    "0", "8", "9", "0", "2", "0", "0", "0", "7", "0", "8", "3", "8", "3", "6", "7", "6", "2", "7", "3",
    "8", "5", "4", "8", "4", "5", "8", "1", "7", "7", "1", "1", "5", "3", "1", "7", "6", "4", "4", "7",
    "5", "7", "3", "0", "2", "7", "0", "0", "6", "9", "8", "5", "5", "5", "7", "1", "3", "6", "6", "9",
    "5", "9", "6", "2", "2", "8", "4", "2", "9", "1", "4", "8", "1", "9", "8", "6", "0", "8", "3", "4",
    "9", "3", "6", "4", "7", "5", "2", "9", "2", "7", "1", "9", "0", "7", "4", "1", "6", "8", "4", "4",
    "4", "3", "6", "5", "5", "1", "0", "7", "0", "4", "3", "4", "2", "7", "1", "1", "5", "5", "9", "6",
    "9", "9", "5", "0", "8", "0", "9", "3", "0", "4", "2", "8", "8", "0", "1", "7", "7", "9", "0", "4",
    "1", "7", "4", "4", "9", "7", "7", "9", "2">>

\* 0.a1a2.. < 0.b1b2.. for digit strings a and b (a missing digit is 0)
DecimalLess(a, b) ==
  LET n     == IF Len(a) < Len(b) THEN Len(b) ELSE Len(a)
      da(i) == IF i <= Len(a) THEN DigitVal(a[i]) ELSE 0
      db(i) == IF i <= Len(b) THEN DigitVal(b[i]) ELSE 0
      diff  == {i \in 1..n : da(i) # db(i)}
  IN  /\ diff # {}
      /\ LET i == CHOOSE k \in diff : \A j \in diff : k <= j
         IN  da(i) < db(i)

\* a < b for digit strings without leading zeros, read as naturals
NaturalLess(a, b) ==
  \/ Len(a) < Len(b)
  \/ Len(a) = Len(b) /\ DecimalLess(a, b)

\* How the exponent e, written with the digits eDig and negative when neg,
\* compares with the integer k: "less", "equal" or "greater".  The digits
\* are compared as written, so an exponent of any length is exact.
CompareExponent(eDig, neg, k) ==
  LET E    == StripZeros(eDig)
      absK == StripZeros(NatText(IF k < 0 THEN 0 - k ELSE k))
  IN  IF ~neg
      THEN IF k < 0 THEN "greater"
           ELSE IF NaturalLess(E, absK) THEN "less"
           ELSE IF E = absK THEN "equal"
           ELSE "greater"
      ELSE IF k > 0 THEN "less"
           ELSE IF NaturalLess(absK, E) THEN "less"
           ELSE IF E = absK THEN "equal"
           ELSE "greater"

\* Is  0.d1d2..dn * 10^pointPos  (d1 # 0) below the overflow threshold,
\* given how pointPos compares with 309?
MagnitudeFinite(sig, pointPosTo309) ==
  \/ pointPosTo309 = "less"
  \/ pointPosTo309 = "equal" /\ DecimalLess(sig, OverflowThreshold)

PosOf(s, cs) ==
  LET hits == {i \in 1..Len(s) : s[i] \in cs}
  IN  IF hits = {} THEN 0 ELSE CHOOSE i \in hits : \A j \in hits : i <= j

\* StrUnsignedDecimalLiteral without the Infinity literal: the class of
\*   digits [. digits?] [exp]  |  . digits [exp]
\* returns "finite", "Infinity" or "NaN"
UnsignedDecimal(u) ==
  LET ePos   == PosOf(u, {"e", "E"})
      mant   == IF ePos = 0 THEN u ELSE SubSeq(u, 1, ePos - 1)
      expo   == IF ePos = 0 THEN <<>> ELSE SubSeq(u, ePos + 1, Len(u))
      eSign  == expo # <<>> /\ expo[1] \in {"+", "-"}
      eDig   == IF eSign THEN Tail(expo) ELSE expo
      expOk  == ePos = 0 \/ (eDig # <<>> /\ AllDigits(eDig))
      dot    == PosOf(mant, {"."})
      intP   == IF dot = 0 THEN mant ELSE SubSeq(mant, 1, dot - 1)
      fracP  == IF dot = 0 THEN <<>> ELSE SubSeq(mant, dot + 1, Len(mant))
      mantOk == AllDigits(intP) /\ AllDigits(fracP) /\ (intP \o fracP) # <<>>
  IN  IF ~(mantOk /\ expOk) THEN "NaN"
      ELSE LET sig  == StripZeros(intP \o fracP)
               lead == Len(intP \o fracP) - Len(sig)
               \* the value is 0.sig * 10^(Len(intP) - lead + e), and
               \* Len(intP) - lead + e ? 309  is  e ? 309 - Len(intP) + lead
               rel  == CompareExponent(eDig, eSign /\ expo[1] = "-",
                                       309 - Len(intP) + lead)
           IN  IF sig = <<>> THEN "finite"
               ELSE IF MagnitudeFinite(sig, rel) THEN "finite"
               ELSE "Infinity"

InfinityLiteral == <<"I", "n", "f", "i", "n", "i", "t", "y">>

\* the bits of a literal whose digits have `width` bits each, most
\* significant first
LiteralBits(ds, width) ==
  [i \in 1..(Len(ds) * width) |->
     (DigitVal(ds[((i - 1) \div width) + 1]) \div (2 ^ (width - 1 - ((i - 1) % width)))) % 2]

\* a bit string without its leading zeros
StripZeroBits(bs) ==
  LET nz == {i \in 1..Len(bs) : bs[i] # 0}
  IN  IF nz = {} THEN <<>>
      ELSE SubSeq(bs, CHOOSE i \in nz : \A j \in nz : i <= j, Len(bs))

\* NonDecimalIntegerLiteral: 0x / 0o / 0b and at least one digit of the
\* radix, no sign.  The value overflows from 2^1024 - 2^970 on, that is
\* with more than 1024 bits, or with 1024 bits of which the first 54 are set.
IsNonDecimal(u) ==
  /\ Len(u) >= 3
  /\ u[1] = "0"
  /\ u[2] \in {"x", "X", "o", "O", "b", "B"}
  /\ LET ds == SubSeq(u, 3, Len(u))
     IN  \A i \in 1..Len(ds) :
           ds[i] \in (CASE u[2] \in {"x", "X"} -> HexDigit
                        [] u[2] \in {"o", "O"} -> {"0", "1", "2", "3", "4", "5", "6", "7"}
                        [] OTHER -> {"0", "1"})

NonDecimal(u) ==
  LET width == CASE u[2] \in {"x", "X"} -> 4 [] u[2] \in {"o", "O"} -> 3 [] OTHER -> 1
      bits  == StripZeroBits(LiteralBits(SubSeq(u, 3, Len(u)), width))
  IN  IF \/ Len(bits) < 1024
         \/ Len(bits) = 1024 /\ \E i \in 1..54 : bits[i] = 0
      THEN "finite" ELSE "Infinity"

\* Number(string): the StringToNumber conversion.  White space is stripped
\* at both ends; the empty remainder is 0; otherwise the remainder must be a
\* StrNumericLiteral: a non-decimal integer literal, or an optionally
\* signed Infinity or decimal literal.
StringToNumber(s) ==
  LET t      == Trim(s)
      signed == t # <<>> /\ t[1] \in {"+", "-"}
      u      == IF signed THEN Tail(t) ELSE t
      neg    == signed /\ t[1] = "-"
      r      == IF u = InfinityLiteral THEN "Infinity" ELSE UnsignedDecimal(u)
  IN  IF t = <<>> THEN "finite"
      ELSE IF IsNonDecimal(t) THEN NonDecimal(t)
      ELSE IF r = "Infinity" /\ neg THEN "-Infinity"
      ELSE r

(* ------------------------------- values ------------------------------- *)

\* The facts about a value that the library inspects.
\*   type    typeof value
\*   class   the built-in kind seen by Array.isArray, instanceof and
\*           Object.prototype.toString
\*   str     the characters of a string
\*   num     "finite", "NaN", "Infinity", "-Infinity" for a number; int its
\*           value when finite
\*   elems   the elements of an array (Hole marks a missing element)
\*   size    the size of a Map or Set
\*   props   number of own enumerable data keys besides `then`
\*   then    the own `then` member: "absent", "function", "other", or
\*           "throws" (an accessor whose read fails)
\*   ctor    what value.constructor is, for a function: "Function",
\*           "AsyncFunction", "missing" (an own constructor property set
\*           to undefined) or "noPrototype" (the prototype of the function
\*           is null, so it has no constructor and no toString either)
\*   ownKeys "throws" for a proxy-like object whose key enumeration fails
\*   time    "valid" / "NaN" for a Date
Undefined ==
  [type |-> "undefined", class |-> "Undefined", str |-> <<>>, num |-> "none",
   int |-> 0, elems |-> <<>>, size |-> 0, props |-> 0, then |-> "absent",
   ctor |-> "none", ownKeys |-> "ok", time |-> "none"]

Null == [Undefined EXCEPT !.type = "object", !.class = "Null"]

Str(s) == [Undefined EXCEPT !.type = "string", !.class = "String", !.str = s]

Num(n) ==
  [Undefined EXCEPT !.type = "number", !.class = "Number", !.num = "finite", !.int = n]

NonFinite(k) == [Undefined EXCEPT !.type = "number", !.class = "Number", !.num = k]

Bool(b) ==
  [Undefined EXCEPT !.type = "boolean", !.class = "Boolean",
                    !.int = IF b THEN 1 ELSE 0]

Sym == [Undefined EXCEPT !.type = "symbol", !.class = "Symbol"]

BigInt(n) == [Undefined EXCEPT !.type = "bigint", !.class = "BigInt", !.int = n]

Obj(class) == [Undefined EXCEPT !.type = "object", !.class = class]

Arr(es) == [Obj("Array") EXCEPT !.elems = es]

Hole == [Undefined EXCEPT !.type = "hole", !.class = "Hole"]

Func(ctor, then) ==
  [Undefined EXCEPT !.type = "function",
                    !.class = IF ctor = "AsyncFunction" THEN "AsyncFunction" ELSE "Function",
                    !.ctor = ctor, !.then = then]

Primitives ==
  {Undefined, Null, Sym, BigInt(1), Bool(TRUE), Bool(FALSE)}
    \cup {Num(n) : n \in {0 - 1, 0, 1}}
    \cup {NonFinite(k) : k \in {"NaN", "Infinity", "-Infinity"}}

\* what an array of the model may hold
Elements == {Str(<<"e">>), Num(1), Undefined, Hole}

Arrays == UNION {{Arr(es) : es \in [1..k -> Elements]} : k \in 0..MaxArr}

Collections ==
  {[Obj(c) EXCEPT !.size = n] : c \in {"Map", "Set"}, n \in 0..MaxSize}

Dates == {[Obj("Date") EXCEPT !.time = t] : t \in {"valid", "NaN"}}

PlainObjects ==
  {[Obj("Object") EXCEPT !.props = n, !.then = t, !.ownKeys = k] :
     n \in 0..MaxSize, t \in {"absent", "function", "other", "throws"},
     k \in {"ok", "throws"}}

Functions ==
  {Func(c, t) : c \in {"Function", "AsyncFunction", "missing", "noPrototype"},
                t \in {"absent", "function"}}

Objects ==
  Arrays \cup Collections \cup Dates \cup PlainObjects \cup Functions
    \cup {Obj("RegExp"), Obj("Promise")}

NonStrings == Primitives \cup Objects

Values == NonStrings \cup {Str(s) : s \in Strings(MaxShort)}

\* strings outside the alphabet: the other literal forms, other white
\* space, and magnitudes on both sides of the overflow threshold
SampleStrings ==
  {<<"0", "x", "1", "0">>, <<"0", "X", "1", "f">>, <<"0", "b", "1", "1">>,
   <<"0", "o", "1", "7">>, <<"0", "x">>, <<"0", "b", "1", "2">>,
   <<"-", "0", "x", "1", "0">>, <<" ", "0", "x", "1", "0", "\n">>,
   <<"\f", "1">>, <<"1", "\f">>, <<"\f">>, <<"U+00A0", "1", "U+2028">>,
   <<"\t", "U+000B", "U+FEFF">>,
   <<"I", "n", "f", "i", "n", "i", "t", "y">>,
   <<"-", "I", "n", "f", "i", "n", "i", "t", "y">>,
   <<"a", "b", "c">>, <<"1", "2", "3">>, <<"1", "2", ".", "5", "e", "2">>,
   <<"1", "e", "3", "0", "8">>, <<"2", "e", "3", "0", "8">>,
   <<"1", ".", "7", "9", "7", "6", "9", "3", "1", "3", "4", "8", "6", "2", "3", "1",
     "5", "8", "0", "7", "9", "3", "e", "3", "0", "8">>,
   <<"1", ".", "7", "9", "7", "6", "9", "3", "1", "3", "4", "8", "6", "2", "3", "1",
     "5", "8", "0", "8", "e", "3", "0", "8">>,
   <<"1", "7", "9", "7", "6", "9", "3", "1", "3", "4", "8", "6", "2", "3", "1", "5",
     "8", "0", "7", "9", "0", "0", "0", "e", "2", "8", "6">>}

TextValues ==
  NonStrings \cup {Str(s) : s \in Strings(MaxStrLen) \cup SampleStrings}

(* ------------------------- host inspections --------------------------- *)

\* Array.isArray(value)
ArrayIsArray(v) == v.class = "Array"

\* value instanceof C, for a built-in constructor C
InstanceOf(v, c) == v.type = "object" /\ v.class = c

\* Object.prototype.toString.call(value)
ObjectToString(v) ==
  IF v.class = "AsyncFunction" THEN "[object AsyncFunction]"
  ELSE CASE v.class = "Undefined" -> "[object Undefined]"
         [] v.class = "Null"      -> "[object Null]"
         [] v.class = "String"    -> "[object String]"
         [] v.class = "Number"    -> "[object Number]"
         [] v.class = "Boolean"   -> "[object Boolean]"
         [] v.class = "Symbol"    -> "[object Symbol]"
         [] v.class = "BigInt"    -> "[object BigInt]"
         [] v.class = "Function"  -> "[object Function]"
         [] v.class = "Array"     -> "[object Array]"
         [] v.class = "Date"      -> "[object Date]"
         [] v.class = "RegExp"    -> "[object RegExp]"
         [] v.class = "Map"       -> "[object Map]"
         [] v.class = "Set"       -> "[object Set]"
         [] v.class = "Promise"   -> "[object Promise]"
         [] v.class = "Object"    -> "[object Object]"

\* Object.keys(value).length, when the enumeration succeeds
OwnKeyCount(v) == v.props + (IF v.then = "absent" THEN 0 ELSE 1)

\* Number.isFinite(value) for a number
NumberIsFinite(v) == v.type = "number" /\ v.num = "finite"

(* ------------------------------ outcomes ------------------------------ *)

\* What a call produces: a boolean, a string, nothing, or a raised error.
NoOutcome ==
  [kind |-> "none", bool |-> FALSE, tag |-> "", error |-> "", message |-> <<>>]

Return(b) == [NoOutcome EXCEPT !.kind = "boolean", !.bool = b]

ReturnString(t) == [NoOutcome EXCEPT !.kind = "string", !.tag = t]

ReturnVoid == [NoOutcome EXCEPT !.kind = "void"]

Throw(e, m) == [NoOutcome EXCEPT !.kind = "throw", !.error = e, !.message = m]

Raised(o) == o.kind = "throw"

(* ----------------- the library (src/unnamed/part_001) ----------------- *)

isNumeric(v) ==
  IF v.type = "number" THEN NumberIsFinite(v)
  ELSE IF v.type = "string"
       THEN LET trimmed == Trim(v.str)
            IN  trimmed # <<>> /\ StringToNumber(trimmed) = "finite"
       ELSE FALSE

isString(v) == v.type = "string"

isBoolean(v) == v.type = "boolean"

isNumber(v) == v.type = "number" /\ NumberIsFinite(v)

isArray(v) == ArrayIsArray(v)

isObject(v) == ObjectToString(v) = "[object Object]"

isDate(v) == InstanceOf(v, "Date") /\ v.time # "NaN"

isFunction(v) == v.type = "function"

\* value.constructor.name: reading .name of a missing constructor raises
isAsyncFunction(v) ==
  IF v.type # "function" THEN Return(FALSE)
  ELSE IF v.ctor \in {"missing", "noPrototype"}
       THEN Throw("TypeError", <<"Cannot read properties of undefined (reading 'name')">>)
       ELSE Return(v.ctor = "AsyncFunction")

\* the read of value.then runs an accessor, which may raise
isPromise(v) ==
  IF InstanceOf(v, "Promise") THEN Return(TRUE)
  ELSE IF v.type = "object" /\ v # Null
       THEN IF v.then = "throws" THEN Throw("Error", <<"then">>)
            ELSE Return(v.then = "function")
       ELSE Return(FALSE)

isNullish(v) == v \in {Null, Undefined}

isDefined(v) == v \notin {Null, Undefined}

isEmpty(v) ==
  IF v \in {Null, Undefined} THEN Return(TRUE)
  ELSE IF v.type = "string" THEN Return(Len(Trim(v.str)) = 0)
  ELSE IF ArrayIsArray(v) THEN Return(Len(v.elems) = 0)
  ELSE IF InstanceOf(v, "Map") \/ InstanceOf(v, "Set") THEN Return(v.size = 0)
  ELSE IF isObject(v)
       THEN IF v.ownKeys = "throws" THEN Throw("TypeError", <<"ownKeys">>)
            ELSE Return(OwnKeyCount(v) = 0)
  ELSE Return(FALSE)

isNotEmpty(v) ==
  LET r == isEmpty(v) IN IF Raised(r) THEN r ELSE Return(~r.bool)

\* a getType that asks typeof before the instanceof tests
getType_TypeofFirst(v) ==
  IF v = Null THEN "null"
  ELSE IF v = Undefined THEN "undefined"
  ELSE IF v.type = "object" THEN "object"
  ELSE IF ArrayIsArray(v) THEN "array"
  ELSE v.type

getType(v) ==
  IF v = Null THEN "null"
  ELSE IF v = Undefined THEN "undefined"
  ELSE IF ArrayIsArray(v) THEN "array"
  ELSE IF InstanceOf(v, "Date") THEN "date"
  ELSE IF InstanceOf(v, "RegExp") THEN "regexp"
  ELSE IF InstanceOf(v, "Map") THEN "map"
  ELSE IF InstanceOf(v, "Set") THEN "set"
  ELSE IF InstanceOf(v, "Promise") THEN "promise"
  ELSE v.type

\* the predicates a caller hands to the combinators
PredNames == {"isString", "isNumber", "isBoolean", "isDefined"}

Apply(p, v) ==
  CASE p = "isString"  -> isString(v)
    [] p = "isNumber"  -> isNumber(v)
    [] p = "isBoolean" -> isBoolean(v)
    [] p = "isDefined" -> isDefined(v)
    [] p = "isArray"   -> isArray(v)
    [] p = "isObject"  -> isObject(v)
    [] p = "isDate"    -> isDate(v)
    [] p = "isFunction" -> isFunction(v)
    [] p = "isNullish" -> isNullish(v)

IntText(n) == IF n < 0 THEN <<"-">> \o NatText(0 - n) ELSE NatText(n)

\* ToString of a value that is not an object, as a sequence of text pieces
PrimitiveText(v) ==
  CASE v.type = "undefined" -> <<"undefined">>
    [] v.type = "string"    -> v.str
    [] v.type = "number"    -> IF v.num = "finite" THEN IntText(v.int) ELSE <<v.num>>
    [] v.type = "boolean"   -> IF v.int = 1 THEN <<"true">> ELSE <<"false">>
    [] v.type = "bigint"    -> IntText(v.int)
    [] v.type = "hole"      -> <<>>
    [] OTHER                -> <<"null">>

\* Array.prototype.join: missing, undefined and null elements render empty
RECURSIVE JoinText(_)
JoinText(es) ==
  IF es = <<>> THEN <<>>
  ELSE LET h == IF es[1].type \in {"hole", "undefined"} \/ es[1] = Null
                THEN <<>> ELSE PrimitiveText(es[1])
       IN  IF Len(es) = 1 THEN h ELSE h \o <<",">> \o JoinText(Tail(es))

\* Can `${value}` be evaluated?  A symbol has no implicit conversion to a
\* string, and a function without a prototype has no toString to call.
Renders(v) ==
  /\ v.type # "symbol"
  /\ ~(v.type = "function" /\ v.ctor = "noPrototype")

\* `${value}` for a value that renders
TemplateText(v) ==
  IF v.type = "function" THEN <<"<function source>">>
  ELSE IF v.type # "object" \/ v = Null THEN PrimitiveText(v)
  ELSE CASE v.class = "Array"  -> JoinText(v.elems)
         [] v.class = "Date"   -> IF v.time = "NaN" THEN <<"Invalid Date">>
                                  ELSE <<"<date string>">>
         [] v.class = "RegExp" -> <<"<regexp source>">>
         [] OTHER              -> <<ObjectToString(v)>>

DefaultMessagePrefix == <<"Type assertion failed for value: ">>

\* the optional message argument
NoMessage == [given |-> FALSE, text |-> <<>>]

Message(t) == [given |-> TRUE, text |-> t]

Messages == {NoMessage, Message(<<>>), Message(<<" ">>), Message(<<"n", "o">>)}

\* message || `...${value}`: the message is used when it is truthy
assertType(v, p, m) ==
  IF ~Apply(p, v)
  THEN IF m.given /\ m.text # <<>> THEN Throw("TypeError", m.text)
       ELSE IF v.type = "symbol"
            THEN Throw("TypeError", <<"Cannot convert a Symbol value to a string">>)
       ELSE IF ~Renders(v)
            THEN Throw("TypeError", <<"Cannot convert object to primitive value">>)
            ELSE Throw("TypeError", DefaultMessagePrefix \o TemplateText(v))
  ELSE ReturnVoid

\* an isArrayOf written with Array.prototype.some
Every_Some(es, p) == \E i \in 1..Len(es) : es[i] # Hole /\ Apply(p, es[i])

\* Array.prototype.every: the callback runs on the elements that are
\* present, in index order, and a missing element is skipped
RECURSIVE Every(_, _)
Every(es, p) ==
  IF es = <<>> THEN TRUE
  ELSE IF es[1] = Hole THEN Every(Tail(es), p)
  ELSE Apply(p, es[1]) /\ Every(Tail(es), p)

isArrayOf(v, p) == ArrayIsArray(v) /\ Every(v.elems, p)

isStringArray(v) == isArrayOf(v, "isString")

isNumberArray(v) == isArrayOf(v, "isNumber")

(* ------------------ the small library (src/src/index.ts) -------------- *)

\* an isNumeric that tests value !== '' without trimming
Index_isNumeric_Untrimmed(v) ==
  IF v.type = "number" THEN NumberIsFinite(v)
  ELSE IF v.type = "string" /\ v.str # <<>>
       THEN StringToNumber(v.str) = "finite"
       ELSE FALSE

\* try { ... } catch {} return false
Index_isNumeric(v) ==
  IF v.type = "number" THEN NumberIsFinite(v)
  ELSE IF v.type = "string" /\ Trim(v.str) # <<>>
       THEN StringToNumber(v.str) = "finite"
       ELSE FALSE

Index_isObject(v) == v # Null /\ v.type = "object" /\ ~ArrayIsArray(v)

\* an error raised by Object.keys is caught and the function returns false
Index_isEmpty(v) ==
  IF v \in {Null, Undefined} THEN TRUE
  ELSE IF v.type = "string" THEN Len(v.str) = 0
  ELSE IF ArrayIsArray(v) THEN Len(v.elems) = 0
  ELSE IF InstanceOf(v, "Map") \/ InstanceOf(v, "Set") THEN v.size = 0
  ELSE IF v.type = "object"
       THEN IF v.ownKeys = "throws" THEN FALSE ELSE OwnKeyCount(v) = 0
  ELSE FALSE

(* --------------------------- the caller ------------------------------- *)

PredLists == UNION {[1..k -> PredNames] : k \in 0..MaxPreds}

\* the guards that take the value alone and cannot raise
GuardNames ==
  PredNames \cup {"isArray", "isObject", "isDate", "isFunction", "isNullish"}

Idle ==
  /\ pc = "idle" /\ op = "none" /\ out = NoOutcome
  /\ preds = <<>> /\ idx = 0 /\ calls = <<>> /\ msg = NoMessage

Init ==
  /\ value \in Values
  /\ firstTag = ""
  /\ Idle

InitText ==
  /\ value \in TextValues
  /\ firstTag = ""
  /\ Idle

\* a call that completes in one step
Call(name, ps, m, outcome) ==
  /\ pc = "idle"
  /\ pc' = "done"
  /\ op' = name
  /\ preds' = ps
  /\ msg' = m
  /\ out' = outcome
  /\ UNCHANGED <<value, idx, calls>>

CallGuard ==
  /\ \E p \in GuardNames : Call(p, <<>>, NoMessage, Return(Apply(p, value)))
  /\ UNCHANGED firstTag

CallIsNumeric ==
  /\ Call("isNumeric", <<>>, NoMessage, Return(isNumeric(value)))
  /\ UNCHANGED firstTag

CallIndexIsNumeric ==
  /\ Call("index.isNumeric", <<>>, NoMessage, Return(Index_isNumeric(value)))
  /\ UNCHANGED firstTag

CallIndexIsObject ==
  /\ Call("index.isObject", <<>>, NoMessage, Return(Index_isObject(value)))
  /\ UNCHANGED firstTag

CallIsAsyncFunction ==
  /\ Call("isAsyncFunction", <<>>, NoMessage, isAsyncFunction(value))
  /\ UNCHANGED firstTag

CallIsPromise ==
  /\ Call("isPromise", <<>>, NoMessage, isPromise(value))
  /\ UNCHANGED firstTag

CallIsEmpty ==
  /\ Call("isEmpty", <<>>, NoMessage, isEmpty(value))
  /\ UNCHANGED firstTag

CallIsNotEmpty ==
  /\ Call("isNotEmpty", <<>>, NoMessage, isNotEmpty(value))
  /\ UNCHANGED firstTag

CallIndexIsEmpty ==
  /\ Call("index.isEmpty", <<>>, NoMessage, Return(Index_isEmpty(value)))
  /\ UNCHANGED firstTag

\* firstTag remembers what the first getType call on the value returned
CallGetType ==
  /\ Call("getType", <<>>, NoMessage, ReturnString(getType(value)))
  /\ firstTag' = IF firstTag = "" THEN getType(value) ELSE firstTag

CallAssertType ==
  /\ \E p \in PredNames, m \in Messages :
        Call("assertType", <<p>>, m, assertType(value, p, m))
  /\ UNCHANGED firstTag

CallIsArrayOf ==
  /\ \E p \in PredNames :
        Call("isArrayOf", <<p>>, NoMessage, Return(isArrayOf(value, p)))
  /\ UNCHANGED firstTag

CallIsStringArray ==
  /\ Call("isStringArray", <<>>, NoMessage, Return(isStringArray(value)))
  /\ UNCHANGED firstTag

CallIsNumberArray ==
  /\ Call("isNumberArray", <<>>, NoMessage, Return(isNumberArray(value)))
  /\ UNCHANGED firstTag

\* isOneOf(...predicates) builds the union guard, and the guard is applied
\* to the value: predicates.some(...) starts at the first predicate
CallIsOneOf ==
  /\ pc = "idle"
  /\ \E ps \in PredLists : preds' = ps
  /\ op' = "isOneOf"
  /\ pc' = "some"
  /\ idx' = 1
  /\ calls' = <<>>
  /\ UNCHANGED <<value, out, msg, firstTag>>

\* a loop that returns the result of the first predicate it invokes
SomeStep_ReturnsFirst ==
  /\ pc = "some"
  /\ IF idx > Len(preds)
     THEN /\ out' = Return(FALSE)
          /\ UNCHANGED calls
     ELSE /\ calls' = Append(calls, preds[idx])
          /\ out' = Return(Apply(preds[idx], value))
  /\ pc' = "done"
  /\ UNCHANGED <<value, op, preds, idx, msg, firstTag>>

\* a loop that invokes every predicate and reports whether any matched
SomeStep_NoShortCircuit ==
  /\ pc = "some"
  /\ IF idx > Len(preds)
     THEN /\ out' = Return(out.bool)
          /\ pc' = "done"
          /\ UNCHANGED <<idx, calls>>
     ELSE /\ calls' = Append(calls, preds[idx])
          /\ out' = [out EXCEPT !.bool = out.bool \/ Apply(preds[idx], value)]
          /\ idx' = idx + 1
          /\ UNCHANGED pc
  /\ UNCHANGED <<value, op, preds, msg, firstTag>>

\* one round of Array.prototype.some: past the end the answer is false;
\* otherwise the predicate at idx is invoked, a true result ends the loop
\* with true, a false one moves to the next predicate
SomeStep ==
  /\ pc = "some"
  /\ IF idx > Len(preds)
     THEN /\ out' = Return(FALSE)
          /\ pc' = "done"
          /\ UNCHANGED <<idx, calls>>
     ELSE /\ calls' = Append(calls, preds[idx])
          /\ IF Apply(preds[idx], value)
             THEN /\ out' = Return(TRUE)
                  /\ pc' = "done"
                  /\ UNCHANGED idx
             ELSE /\ idx' = idx + 1
                  /\ UNCHANGED <<out, pc>>
  /\ UNCHANGED <<value, op, preds, msg, firstTag>>

\* the caller takes the outcome and is ready for the next call
Continue ==
  /\ pc = "done"
  /\ pc' = "idle" /\ op' = "none" /\ out' = NoOutcome
  /\ preds' = <<>> /\ idx' = 0 /\ calls' = <<>> /\ msg' = NoMessage
  /\ UNCHANGED <<value, firstTag>>

Next ==
  \/ CallGuard
  \/ CallIsNumeric
  \/ CallIndexIsNumeric
  \/ CallIndexIsObject
  \/ CallIsAsyncFunction
  \/ CallIsPromise
  \/ CallIsEmpty
  \/ CallIsNotEmpty
  \/ CallIndexIsEmpty
  \/ CallGetType
  \/ CallAssertType
  \/ CallIsArrayOf
  \/ CallIsStringArray
  \/ CallIsNumberArray
  \/ CallIsOneOf
  \/ SomeStep
  \/ Continue

Spec == Init /\ [][Next]_vars

\* the callers of the text specification pass strings of up to MaxStrLen
\* characters to the functions that read the characters
NextText ==
  \/ CallIsNumeric
  \/ CallIndexIsNumeric
  \/ CallIsEmpty
  \/ CallIndexIsEmpty
  \/ Continue

SpecText == InitText /\ [][NextText]_vars

(* ------------------------------ claims -------------------------------- *)

Done(name) == pc = "done" /\ op = name

\* the six-way dispatch of the emptiness check, first match wins
EmptyDispatch(v) ==
  IF v = Null \/ v = Undefined THEN TRUE
  ELSE IF v.type = "string" THEN Len(Trim(v.str)) = 0
  ELSE IF v.class = "Array" THEN Len(v.elems) = 0
  ELSE IF v.class \in {"Map", "Set"} THEN v.size = 0
  ELSE IF v.class = "Object" THEN OwnKeyCount(v) = 0
  ELSE FALSE

\* C1: in both implementations isEmpty(v) is the result of the dispatch:
\* nullish -> true; string -> trimmed length 0; array -> length 0; Map or
\* Set -> size 0; plain object -> no own enumerable keys; anything else ->
\* false.  (Stated for the values whose keys can be enumerated; a failing
\* enumeration is the subject of C5.)
C1_IsEmptyDispatch ==
  (pc = "done" /\ op \in {"isEmpty", "index.isEmpty"} /\ value.ownKeys = "ok")
    => out = Return(EmptyDispatch(value))

\* the built-in kinds that are not plain keyed records
SpecialKinds ==
  {"Null", "Array", "Date", "RegExp", "Map", "Set", "Function", "AsyncFunction", "Promise"}

\* C2: in both implementations isObject(v) is false for null, for arrays and
\* for every instance of a specialized built-in kind (Date, RegExp, Map, Set,
\* function, Promise), and true for an ordinary object literal such as {}.
C2_IsObjectPlainOnly ==
  (pc = "done" /\ op \in {"isObject", "index.isObject"})
    => /\ value.class \in SpecialKinds => out = Return(FALSE)
       /\ value = Obj("Object") => out = Return(TRUE)

\* a finite number, or a string whose trimmed form is non-empty and
\* converts to a finite number
NumericRule(v) ==
  \/ v.type = "number" /\ v.num = "finite"
  \/ /\ v.type = "string"
     /\ Trim(v.str) # <<>>
     /\ StringToNumber(Trim(v.str)) = "finite"

\* C3: isNumeric(v) is true iff v is a finite number or a string whose
\* whitespace-trimmed form is non-empty and converts to a finite number;
\* false for every other value; and both implementations return that
\* same result for every input.
C3_IsNumericRule ==
  (pc = "done" /\ op \in {"isNumeric", "index.isNumeric"})
    => out = Return(NumericRule(value))

\* index.ts converted a string with white space around a numeric literal
C3_Witness ==
  /\ Done("index.isNumeric")
  /\ value.type = "string"
  /\ Len(value.str) > Len(Trim(value.str)) + 1
  /\ Len(Trim(value.str)) >= 3
  /\ out = Return(TRUE)

\* C4: assertType raises a TypeError iff predicate(value) is false; the
\* error carries exactly the caller's message when one was supplied (any
\* string) and otherwise the default message with a rendering of the
\* value; when the predicate is true it returns normally.
C4_AssertTypeMessage ==
  Done("assertType") =>
    /\ Raised(out) <=> ~Apply(preds[1], value)
    /\ Raised(out) =>
         /\ out.error = "TypeError"
         /\ msg.given => out.message = msg.text
         /\ ~msg.given =>
              /\ out.message # <<>>
              /\ <<out.message[1]>> = DefaultMessagePrefix
              /\ Renders(value) =>
                   out.message = DefaultMessagePrefix \o TemplateText(value)
    /\ ~Raised(out) => out = ReturnVoid

\* C5: no exported function other than assertType ever raises, whatever
\* the value (objects whose property reads fail, functions with a missing
\* constructor, proxy-like values whose inspection fails included), and in
\* isEmpty an internal inspection error yields false.
C5_OnlyAssertTypeRaises ==
  /\ (pc = "done" /\ op # "assertType") => ~Raised(out)
  /\ (Done("isEmpty") /\ value.ownKeys = "throws" /\ value.class = "Object")
       => out = Return(FALSE)

\* a non-null object or a function that exposes a callable then member
Thenable(v) ==
  /\ v.type \in {"object", "function"}
  /\ v # Null
  /\ v.then = "function"

\* C6: isPromise(v) is true iff v is a Promise instance or a thenable, a
\* thenable being any non-null object or function with a callable then; a
\* function carrying a callable then is classified as a promise.  (Stated
\* for the values whose then member can be read; a failing read is the
\* subject of C5.)
C6_IsPromiseThenable ==
  (Done("isPromise") /\ value.then # "throws")
    => out = Return(value.class = "Promise" \/ Thenable(value))

\* C7: isOneOf(...ps)(v) is true iff at least one predicate of ps returns
\* true for v; with zero predicates it is false for every value.
C7_IsOneOfAny ==
  Done("isOneOf") =>
    out = Return(\E i \in 1..Len(preds) : Apply(preds[i], value))

\* a later predicate of the list matched after the first one did not
C7_Witness ==
  /\ Done("isOneOf")
  /\ Len(preds) >= 2
  /\ ~Apply(preds[1], value)
  /\ out = Return(TRUE)

\* the elements that are present in an array (Array.prototype.every does
\* not visit a missing element)
Present(v) == {i \in 1..Len(v.elems) : v.elems[i] # Hole}

\* C8: isArrayOf(v, p) is true iff v is an array and every element of v
\* satisfies p; the empty array satisfies it for every p, a non-array never
\* does, and isStringArray / isNumberArray are isArrayOf with p = isString /
\* isNumber.
C8_IsArrayOfEvery ==
  /\ Done("isArrayOf") =>
       /\ out = Return(/\ value.class = "Array"
                       /\ \A i \in Present(value) : Apply(preds[1], value.elems[i]))
       /\ value = Arr(<<>>) => out = Return(TRUE)
       /\ value.class # "Array" => out = Return(FALSE)
  /\ Done("isStringArray") =>
       out = Return(/\ value.class = "Array"
                    /\ \A i \in Present(value) : value.elems[i].type = "string")
  /\ Done("isNumberArray") =>
       out = Return(/\ value.class = "Array"
                    /\ \A i \in Present(value) :
                          /\ value.elems[i].type = "number"
                          /\ value.elems[i].num = "finite")

\* a two-element array whose first element satisfies the predicate and
\* whose second does not was rejected
C8_Witness ==
  /\ Done("isArrayOf")
  /\ Len(value.elems) = 2
  /\ value.elems[1] # Hole /\ Apply(preds[1], value.elems[1])
  /\ value.elems[2] # Hole /\ ~Apply(preds[1], value.elems[2])
  /\ out = Return(FALSE)

\* the rules of getType in their order, and the fifteen tags
TagOrder == <<"null", "undefined", "array", "date", "regexp", "map", "set", "promise">>

RuntimeTags == {"string", "number", "boolean", "function", "object", "symbol", "bigint"}

RuleMatches(tag, v) ==
  CASE tag = "null"      -> v.class = "Null"
    [] tag = "undefined" -> v.class = "Undefined"
    [] tag = "array"     -> v.class = "Array"
    [] tag = "date"      -> v.class = "Date"
    [] tag = "regexp"    -> v.class = "RegExp"
    [] tag = "map"       -> v.class = "Map"
    [] tag = "set"       -> v.class = "Set"
    [] tag = "promise"   -> v.class = "Promise"

FirstMatchTag(v) ==
  LET hits == {i \in 1..Len(TagOrder) : RuleMatches(TagOrder[i], v)}
  IN  IF hits = {} THEN v.type
      ELSE TagOrder[CHOOSE i \in hits : \A j \in hits : i <= j]

\* C9: getType(v) returns the tag of the first matching rule in the order
\* null, undefined, array, date, regexp, map, set, promise, and otherwise
\* the runtime tag of the value; the result is one of the fifteen tags, and
\* every call on the same value, whatever was called in between, returns
\* the tag the first call returned.
C9_GetTypeFirstMatch ==
  Done("getType") =>
    /\ out = ReturnString(FirstMatchTag(value))
    /\ out.tag \in {TagOrder[i] : i \in 1..Len(TagOrder)} \cup RuntimeTags
    /\ out.tag = firstTag

\* an object of a specialized kind got the tag of its kind, not "object"
C9_Witness ==
  /\ Done("getType")
  /\ value.type = "object"
  /\ value.class = "Promise"
  /\ out = ReturnString("promise")
  /\ firstTag = "promise"

FirstMatch(ps, v) ==
  LET hits == {i \in 1..Len(ps) : Apply(ps[i], v)}
  IN  IF hits = {} THEN 0 ELSE CHOOSE i \in hits : \A j \in hits : i <= j

\* C10: the guard built by isOneOf(p1..pn) invokes the predicates in
\* argument order and stops at the first match: with pk the first predicate
\* true of v, p1..pk are invoked once each and none after pk; with no
\* match every predicate is invoked once.
C10_IsOneOfShortCircuit ==
  op = "isOneOf" =>
    /\ pc = "some" =>
         /\ calls = SubSeq(preds, 1, idx - 1)
         /\ \A i \in 1..(idx - 1) : ~Apply(preds[i], value)
    /\ pc = "done" =>
         LET k == FirstMatch(preds, value)
         IN  calls = IF k = 0 THEN preds ELSE SubSeq(preds, 1, k)

\* the second of three predicates matched and the third was not invoked
C10_Witness ==
  /\ Done("isOneOf")
  /\ Len(preds) = 3
  /\ FirstMatch(preds, value) = 2
  /\ Len(calls) = 2
  /\ out = Return(TRUE)
====
